---- MODULE Spec2Model ----
(***************************************************************************)
(* Option resolution of the Bitrise run-build action:                      *)
(* src/bitrise/options.ts, createBuildOptions and the transforms it calls. *)
(*                                                                         *)
(* JavaScript objects are functions from the keys they own to values; a    *)
(* key that is owned with the value undefined is kept apart from a key     *)
(* that is absent, as object spread and JSON.stringify keep them apart.    *)
(* Optional values (null / absent objects) are None or Some(v).            *)
(***************************************************************************)
EXTENDS Integers, Sequences, FiniteSets, TLC

VARIABLES
    pc,                   \* position inside createBuildOptions
    appDetails,           \* parameter of createBuildOptions
    context,              \* github.context: ref, sha, payload
    env,                  \* process.env, in encounter order: <<name, value>>
    workflow,             \* input bitrise-workflow
    pipeline,             \* input bitrise-pipeline
    listen,               \* input listen
    allowList,            \* the names the user listed in env-vars-for-bitrise
    envInput,             \* input env-vars-for-bitrise, as one string
    environments,         \* local: environments
    defaultBranchOptions, \* local: defaultBranchOptions
    branchOverride,       \* input branch-override
    commitOverride,       \* input commit-override
    branchOptions,        \* local of processOverrides
    options,              \* local: options
    result,               \* what createBuildOptions returned, None before
    failed,               \* messages given to core.setFailed
    warnings,             \* kinds of core.warning issued
    ran                   \* which transforms have been called

vars == <<pc, appDetails, context, env, workflow, pipeline, listen, allowList,
          envInput, environments, defaultBranchOptions, branchOverride,
          commitOverride, branchOptions, options, result, failed, warnings, ran>>

----------------------------------------------------------------------------
(* Bounds of the model *)

\* longest commit list of a push event
MaxCommits == 2
\* largest pull request number
MaxPrNumber == 2
\* most entries of process.env in the passthrough sweep
MaxEnv == 2
\* most items of the env-vars-for-bitrise list in the passthrough sweep
MaxAllow == 3

----------------------------------------------------------------------------
(* JavaScript values *)

Undefined == "<undefined>"
None == <<>>
Some(v) == <<v>>
EmptyObject == [k \in {} |-> Undefined]

\* truthiness of a string-or-undefined value
Truthy(s) == s # Undefined /\ s # ""

\* o.k, undefined when o does not own k
Get(o, k) == IF k \in DOMAIN o THEN o[k] ELSE Undefined

\* {...a, ...b}
Spread(a, b) ==
    [k \in DOMAIN a \cup DOMAIN b |-> IF k \in DOMAIN b THEN b[k] ELSE a[k]]

startsWith(s, p) == Len(s) >= Len(p) /\ SubSeq(s, 1, Len(p)) = p
endsWith(s, p) == Len(s) >= Len(p) /\ SubSeq(s, Len(s) - Len(p) + 1, Len(s)) = p
slice(s, n) == SubSeq(s, n + 1, Len(s))

Range(f) == {f[i] : i \in DOMAIN f}

----------------------------------------------------------------------------
(* Repository URL selection and identity *)

getRepositoryURL(repoInfoModel) ==
    IF repoInfoModel = None THEN Undefined
    ELSE IF repoInfoModel[1].private THEN repoInfoModel[1].ssh_url
    ELSE repoInfoModel[1].clone_url

GitHubPrefixes ==
    {"https://github.com/", "http://github.com/", "git@github.com:",
     "ssh://git@github.com/"}

\* owner/name of a GitHub repository URL, Undefined when it is none
RepoPath(url) ==
    IF url = Undefined \/ ~(\E p \in GitHubPrefixes : startsWith(url, p))
    THEN Undefined
    ELSE LET p == CHOOSE q \in GitHubPrefixes : startsWith(url, q)
             rest == slice(url, Len(p))
         IN IF endsWith(rest, ".git") THEN SubSeq(rest, 1, Len(rest) - 4)
            ELSE rest

urlsReferTheSameGitHubRepo(a, b) ==
    /\ RepoPath(a) # Undefined
    /\ RepoPath(a) = RepoPath(b)

----------------------------------------------------------------------------
(* transformBasicEvent *)

commitMessage(commit) == commit.message
commitPath(commit) ==
    [added |-> commit.added, removed |-> commit.removed,
     modified |-> commit.modified]

\* the failure transformBasicEvent reports before it returns {}
basicEventFails(payload) == payload.deleted

transformBasicEvent(payload, ctx) ==
    IF payload.deleted THEN EmptyObject
    ELSE
    LET commits ==
            IF payload.commits # None THEN payload.commits[1]
            ELSE IF payload.head_commit # None THEN <<payload.head_commit[1]>>
            ELSE <<>>
        ref == ctx.ref
        isBranch == startsWith(ref, "refs/heads/")
        isTag == ~isBranch /\ startsWith(ref, "refs/tags/")
        commitMessages ==
            IF isBranch
            THEN [i \in 1..Len(commits) |-> commitMessage(commits[i])]
            ELSE <<>>
        commitPaths ==
            IF isBranch
            THEN [i \in 1..Len(commits) |-> commitPath(commits[i])]
            ELSE <<>>
        opts ==
            IF isBranch THEN [branch |-> slice(ref, 11)]
            ELSE IF isTag THEN [tag |-> slice(ref, 10)]
            ELSE EmptyObject
    IN Spread(opts,
         [commit_hash |-> ctx.sha,
          commit_message |->
              IF payload.head_commit # None
              THEN payload.head_commit[1].message ELSE Undefined,
          commit_messages |-> commitMessages,
          commit_paths |-> commitPaths,
          base_repository_url |-> getRepositoryURL(payload.repository)])

----------------------------------------------------------------------------
(* transformPullRequestEvent *)

getPrReadyState(pr) ==
    IF pr.action = "ready_for_review" THEN "converted_to_ready_for_review"
    ELSE IF pr.draft THEN "draft"
    ELSE "ready_for_review"

\* `pull/${prNumber}/merge`
mergeRef(prNumber) == "pull/" \o ToString(prNumber) \o "/merge"
headRef(prNumber) == "pull/" \o ToString(prNumber) \o "/head"

\* mergeable != null
mergeRefUpToDate(pr) == pr.mergeable # None

\* the failure transformPullRequestEvent reports before it returns {}
pullRequestFails(pr) == mergeRefUpToDate(pr) /\ pr.mergeable = Some(FALSE)

repoOwnerLogin(repo) == IF repo = None THEN Undefined ELSE repo[1].owner.login

\* transformPullRequestEvent setting the merge branch whatever mergeable is
pullRequestAlwaysMergeBranch(pr) ==
    IF pullRequestFails(pr) THEN EmptyObject
    ELSE [pull_request_unverified_merge_branch |-> mergeRef(pr.number),
          pull_request_merge_branch |-> mergeRef(pr.number),
          commit_hash |-> pr.head.sha,
          branch |-> pr.head.ref,
          pull_request_id |-> pr.number,
          base_repository_url |-> getRepositoryURL(pr.base.repo),
          pull_request_ready_state |-> getPrReadyState(pr)]

transformPullRequestEvent(pr) ==
    LET prNumber == pr.number
        unverified == [pull_request_unverified_merge_branch |-> mergeRef(prNumber)]
        opts ==
            IF mergeRefUpToDate(pr)
            THEN Spread(unverified,
                   [pull_request_merge_branch |->
                        unverified.pull_request_unverified_merge_branch])
            ELSE unverified
        commitMsg ==
            IF Truthy(pr.body) THEN pr.title \o "\n\n" \o pr.body ELSE pr.title
    IN IF pullRequestFails(pr) THEN EmptyObject
       ELSE Spread(opts,
         [commit_hash |-> pr.head.sha,
          commit_message |-> commitMsg,
          branch |-> pr.head.ref,
          branch_repo_owner |-> repoOwnerLogin(pr.head.repo),
          branch_dest |-> pr.base.ref,
          branch_dest_repo_owner |-> repoOwnerLogin(pr.base.repo),
          pull_request_id |-> prNumber,
          head_repository_url |-> getRepositoryURL(pr.head.repo),
          pull_request_repository_url |-> getRepositoryURL(pr.head.repo),
          base_repository_url |-> getRepositoryURL(pr.base.repo),
          pull_request_head_branch |-> headRef(prNumber),
          pull_request_author |-> pr.user.login,
          diff_url |-> pr.diff_url,
          pull_request_ready_state |-> getPrReadyState(pr)])

----------------------------------------------------------------------------
(* processOverrides, in the three stages of its body *)

\* appDetails?.repo_url
appRepoUrl(details) == IF details = None THEN Undefined ELSE details[1].repo_url

\* defaultBranchOptions?.k
defaultOption(defaults, k) == IF defaults = None THEN Undefined ELSE Get(defaults[1], k)

\* lines 195-216: the seed from the app details, then the parsed override
parseOverride(details, override) ==
    LET seed ==
            IF Truthy(appRepoUrl(details))
            THEN [base_repository_url |-> appRepoUrl(details)]
            ELSE EmptyObject
    IN IF startsWith(override, "refs/heads/")
       THEN Spread(seed, [branch |-> slice(override, 11)])
       ELSE IF startsWith(override, "refs/tags/")
       THEN Spread(seed, [tag |-> slice(override, 10)])
       ELSE IF Truthy(override)
       THEN Spread(seed, [branch |-> override])
       ELSE seed

\* lines 217-222: the override names what the base event produced
overrideMatchesDefault(defaults, override, opts) ==
    /\ Truthy(override)
    /\ \/ /\ Truthy(Get(opts, "branch"))
          /\ Get(opts, "branch") = defaultOption(defaults, "branch")
       \/ /\ Truthy(Get(opts, "tag"))
          /\ Get(opts, "tag") = defaultOption(defaults, "tag")

\* collapseToDefault without the test that the override names what the base
\* event produced
collapseWithoutNameTest(details, defaults, override, opts) ==
    IF /\ defaults # None
       /\ Truthy(appRepoUrl(details))
       /\ urlsReferTheSameGitHubRepo(appRepoUrl(details),
                                     defaultOption(defaults, "base_repository_url"))
    THEN Spread(opts, defaults[1])
    ELSE opts

\* collapseToDefault with the spread the other way round: the override's
\* fields win over the base event's
collapseOverrideWins(details, defaults, override, opts) ==
    IF /\ overrideMatchesDefault(defaults, override, opts)
       /\ Truthy(appRepoUrl(details))
       /\ urlsReferTheSameGitHubRepo(appRepoUrl(details),
                                     defaultOption(defaults, "base_repository_url"))
    THEN Spread(defaults[1], opts)
    ELSE opts

\* collapseToDefault without the test of the repository
collapseWithoutRepoTest(details, defaults, override, opts) ==
    IF overrideMatchesDefault(defaults, override, opts)
    THEN Spread(opts, defaults[1])
    ELSE opts

\* lines 217-237
collapseToDefault(details, defaults, override, opts) ==
    IF /\ overrideMatchesDefault(defaults, override, opts)
       /\ Truthy(appRepoUrl(details))
       /\ urlsReferTheSameGitHubRepo(appRepoUrl(details),
                                     defaultOption(defaults, "base_repository_url"))
    THEN Spread(opts, defaults[1])
    ELSE opts

\* line 238
commitOverrideApplies(defaults, commit) ==
    Truthy(commit) /\ commit # defaultOption(defaults, "commit_hash")

\* narrowToCommit narrowing for every commit override, equal to the base
\* commit or not
narrowAlways(defaults, commit, opts) ==
    IF Truthy(commit)
    THEN [branch |-> Get(opts, "branch"),
          tag |-> Get(opts, "tag"),
          commit_hash |-> commit,
          base_repository_url |-> Get(opts, "base_repository_url")]
    ELSE opts

\* lines 238-246
narrowToCommit(defaults, commit, opts) ==
    IF commitOverrideApplies(defaults, commit)
    THEN [branch |-> Get(opts, "branch"),
          tag |-> Get(opts, "tag"),
          commit_hash |-> commit,
          base_repository_url |-> Get(opts, "base_repository_url")]
    ELSE opts

----------------------------------------------------------------------------
(* prepareEnvironmentVariables *)

isSpace(c) == c \in {" ", "\t", "\n"}

RECURSIVE split(_, _)
split(s, sep) ==
    IF \E i \in 1..Len(s) : SubSeq(s, i, i) = sep
    THEN LET i == CHOOSE j \in 1..Len(s) :
                    /\ SubSeq(s, j, j) = sep
                    /\ \A k \in 1..(j - 1) : SubSeq(s, k, k) # sep
         IN <<SubSeq(s, 1, i - 1)>> \o split(slice(s, i), sep)
    ELSE <<s>>

RECURSIVE trimStart(_)
trimStart(s) ==
    IF Len(s) > 0 /\ isSpace(SubSeq(s, 1, 1)) THEN trimStart(slice(s, 1)) ELSE s

RECURSIVE trimEnd(_)
trimEnd(s) ==
    IF Len(s) > 0 /\ isSpace(SubSeq(s, Len(s), Len(s)))
    THEN trimEnd(SubSeq(s, 1, Len(s) - 1)) ELSE s

trim(s) == trimEnd(trimStart(s))

\* lines 269-273
envPassThrough(input) ==
    LET items == split(input, ",")
        trimmed == [i \in 1..Len(items) |-> trim(items[i])]
    IN SelectSeq(trimmed, LAMBDA i : i # "")

\* .map(([mapped_to, value = '']) => ...)
environmentEntry(entry) ==
    [mapped_to |-> entry[1],
     value |-> IF entry[2] = Undefined THEN "" ELSE entry[2],
     is_expand |-> FALSE]

\* prepareEnvironmentVariables walking the allow-list instead of process.env
prepareInAllowListOrder(input, processEnv) ==
    LET names == envPassThrough(input)
        found == SelectSeq(names,
                     LAMBDA n : \E i \in DOMAIN processEnv : processEnv[i][1] = n)
        entryOf(n) == processEnv[CHOOSE i \in DOMAIN processEnv : processEnv[i][1] = n]
    IN [i \in 1..Len(found) |-> environmentEntry(entryOf(found[i]))]

prepareEnvironmentVariables(input, processEnv) ==
    LET names == Range(envPassThrough(input))
        kept == SelectSeq(processEnv, LAMBDA e : e[1] \in names)
    IN [i \in 1..Len(kept) |-> environmentEntry(kept[i])]

----------------------------------------------------------------------------
(* The inputs: event contexts, app details, action inputs, process.env *)

Commit(i) ==
    [message |-> "commit " \o ToString(i),
     added |-> <<"src/file" \o ToString(i)>>,
     removed |-> <<>>,
     modified |-> <<"README.md">>]

CommitList(n) == [i \in 1..n |-> Commit(i)]

\* payload.commits and payload.head_commit, either of which may be absent
CommitVariants ==
    {[commits |-> None, head_commit |-> None],
     [commits |-> None, head_commit |-> Some(Commit(1))]}
    \cup {[commits |-> Some(CommitList(n)),
           head_commit |-> IF n = 0 THEN None ELSE Some(Commit(n))]
          : n \in 0..MaxCommits}

Repository(private) ==
    [private |-> private,
     ssh_url |-> "git@github.com:acme/app.git",
     clone_url |-> "https://github.com/acme/app.git",
     owner |-> [login |-> "acme"]]

ForkRepository ==
    [private |-> FALSE,
     ssh_url |-> "git@github.com:contrib/app.git",
     clone_url |-> "https://github.com/contrib/app.git",
     owner |-> [login |-> "contrib"]]

PullRequest(number, mergeable, draft, action, body) ==
    [number |-> number, mergeable |-> mergeable, draft |-> draft,
     action |-> action, title |-> "Add feature", body |-> body,
     head |-> [sha |-> "sha-pr", ref |-> "feature", repo |-> Some(ForkRepository)],
     base |-> [ref |-> "main", repo |-> Some(Repository(FALSE))],
     user |-> [login |-> "contrib"],
     diff_url |-> "https://github.com/acme/app/pull/" \o ToString(number) \o ".diff"]

HeadSha == "sha-head"

\* push, tag push and other events on a branch or tag ref
PushContexts ==
    {[ref |-> ref, sha |-> HeadSha,
      payload |-> Some([deleted |-> FALSE, commits |-> cv.commits,
                        head_commit |-> cv.head_commit, repository |-> repo,
                        pull_request |-> None, action |-> Undefined])]
     : ref \in {"refs/heads/main", "refs/tags/v1"},
       cv \in CommitVariants,
       repo \in {None, Some(Repository(FALSE)), Some(Repository(TRUE))}}

\* a push that deletes the ref
DeletedContexts ==
    {[ref |-> ref, sha |-> HeadSha,
      payload |-> Some([deleted |-> TRUE, commits |-> Some(<<>>),
                        head_commit |-> None,
                        repository |-> Some(Repository(FALSE)),
                        pull_request |-> None, action |-> Undefined])]
     : ref \in {"refs/heads/main", "refs/tags/v1"}}

\* The event's action is payload.action. GitHub's pull_request object has no
\* action of its own; the last pair is a payload whose pull_request object
\* carries one as well.
PullRequestActions ==
    {<<"opened", Undefined>>, <<"ready_for_review", Undefined>>,
     <<"ready_for_review", "ready_for_review">>}

\* pull_request (ref refs/pull/N/merge) and pull_request_target (base ref)
PullRequestContexts ==
    {[ref |-> IF target THEN "refs/heads/main"
              ELSE "refs/pull/" \o ToString(n) \o "/merge",
      sha |-> HeadSha,
      payload |-> Some([deleted |-> FALSE, commits |-> None, head_commit |-> None,
                        repository |-> Some(Repository(FALSE)),
                        pull_request |->
                            Some(PullRequest(n, m, d, act[2], body)),
                        action |-> act[1]])]
     : target \in BOOLEAN, n \in 1..MaxPrNumber,
       m \in {None, Some(TRUE), Some(FALSE)}, d \in BOOLEAN,
       act \in PullRequestActions, body \in {"", "Details"}}

\* no payload in the context
MissingPayloadContexts ==
    {[ref |-> "refs/heads/main", sha |-> HeadSha, payload |-> None]}

Contexts ==
    PushContexts \cup DeletedContexts \cup PullRequestContexts
    \cup MissingPayloadContexts

AppDetails ==
    {None, Some([repo_url |-> Undefined]),
     Some([repo_url |-> "https://github.com/acme/app"]),
     Some([repo_url |-> "git@github.com:acme/app.git"]),
     Some([repo_url |-> "git@github.com:acme/other.git"])}

Workflows == {"", "primary"}
Pipelines == {"", "release"}
BranchOverrides ==
    {"", "refs/heads/main", "main", "refs/tags/v1", "refs/tags/main", "dev"}
CommitOverrides == {"", HeadSha, "sha-old"}

\* process.env of the resolution runs
ProcessEnv == <<<<"A", "1">>, <<"B", "2">>>>
\* the env-vars-for-bitrise lists of the resolution runs
AllowLists == {<<>>, <<"A", "C">>}

EnvNames == {"A", "B", "C"}
EnvValues == {"1", "", Undefined}
AllowNames == {"A", "B", "C", ""}
Paddings == {"", " "}

distinctNames(e) == \A i, j \in DOMAIN e : i # j => e[i][1] # e[j][1]

\* process.env of the passthrough sweep: every order of up to MaxEnv names
EnvSweep ==
    {e \in UNION {[1..n -> EnvNames \X EnvValues] : n \in 0..MaxEnv}
       : distinctNames(e)}

AllowSweep == UNION {[1..n -> AllowNames] : n \in 0..MaxAllow}

\* the input string a list of names is written as
RECURSIVE joinNames(_, _)
joinNames(names, pad) ==
    IF Len(names) = 0 THEN ""
    ELSE IF Len(names) = 1 THEN pad \o names[1] \o pad
    ELSE pad \o names[1] \o pad \o "," \o joinNames(Tail(names), pad)

----------------------------------------------------------------------------
(* createBuildOptions *)

MsgNeither == "Either bitrise-workflow or bitrise-pipeline must be provided"
MsgBoth == "Cannot specify both bitrise-workflow and bitrise-pipeline"
MsgListen == "Listen option is not supported with bitrise-pipeline"
MsgDeleted == "this is a 'Deleted' event, no build can be started"
MsgNotMergeable == "Pull Request is not mergeable"
MsgNoPayload == "No payload found in the context."

DraftEnvironment ==
    [mapped_to |-> "GITHUB_PR_IS_DRAFT", value |-> "true", is_expand |-> FALSE]

\* validationFailure without the check of listen
validationWithoutListen(w, p, l) ==
    IF ~Truthy(w) /\ ~Truthy(p) THEN MsgNeither
    ELSE IF Truthy(w) /\ Truthy(p) THEN MsgBoth
    ELSE ""

\* lines 21-36: the message of the check that fails, "" when none does
validationFailure(w, p, l) ==
    IF ~Truthy(w) /\ ~Truthy(p) THEN MsgNeither
    ELSE IF Truthy(w) /\ Truthy(p) THEN MsgBoth
    ELSE IF Truthy(p) /\ l THEN MsgListen
    ELSE ""

\* lines 94-100
buildOptions(opts, w, p, skip, envs) ==
    Spread(opts,
      [workflow_id |-> IF Truthy(w) THEN w ELSE Undefined,
       pipeline_id |-> IF Truthy(p) THEN p ELSE Undefined,
       skip_git_status_report |-> skip,
       environments |-> envs])

\* lines 78-84
repositoryMismatch(details, opts) ==
    /\ Truthy(appRepoUrl(details))
    /\ ~urlsReferTheSameGitHubRepo(appRepoUrl(details),
                                   Get(opts, "base_repository_url"))

\* hasOverrides looking at the branch override alone
hasBranchOverrideOnly == Truthy(branchOverride)

hasOverrides == Truthy(branchOverride) \/ Truthy(commitOverride)
hasPullRequest ==
    context.payload # None /\ context.payload[1].pull_request # None

Locals ==
    /\ workflow = "" /\ pipeline = "" /\ listen = FALSE
    /\ allowList = <<>> /\ envInput = ""
    /\ environments = <<>>
    /\ defaultBranchOptions = None
    /\ branchOverride = "" /\ commitOverride = ""
    /\ branchOptions = EmptyObject
    /\ options = EmptyObject
    /\ result = None
    /\ failed = {} /\ warnings = {} /\ ran = {}

Init ==
    /\ pc = "start"
    /\ appDetails \in AppDetails
    /\ context \in Contexts
    /\ env = ProcessEnv
    /\ Locals

\* lines 17-38
Validate ==
    /\ pc = "start"
    /\ \E w \in Workflows, p \in Pipelines, l \in BOOLEAN :
         /\ workflow' = w /\ pipeline' = p /\ listen' = l
         /\ IF validationFailure(w, p, l) # ""
            THEN /\ failed' = failed \cup {validationFailure(w, p, l)}
                 /\ result' = Some(EmptyObject)
                 /\ pc' = "done"
            ELSE /\ UNCHANGED <<failed, result>>
                 /\ pc' = "environments"
    /\ UNCHANGED <<appDetails, context, env, allowList, envInput, environments,
                   defaultBranchOptions, branchOverride, commitOverride,
                   branchOptions, options, warnings, ran>>

\* line 42
PrepareEnvironments ==
    /\ pc = "environments"
    /\ \E names \in AllowLists :
         /\ allowList' = names
         /\ envInput' = joinNames(names, " ")
    /\ environments' = prepareEnvironmentVariables(envInput', env)
    /\ pc' = "base"
    /\ UNCHANGED <<appDetails, context, env, workflow, pipeline, listen,
                   defaultBranchOptions, branchOverride, commitOverride,
                   branchOptions, options, result, failed, warnings, ran>>

\* lines 44-46
BaseEvent ==
    /\ pc = "base"
    /\ IF context.payload # None
       THEN /\ defaultBranchOptions' =
                   Some(transformBasicEvent(context.payload[1], context))
            /\ failed' = IF basicEventFails(context.payload[1])
                         THEN failed \cup {MsgDeleted} ELSE failed
            /\ ran' = ran \cup {"base"}
       ELSE UNCHANGED <<defaultBranchOptions, failed, ran>>
    /\ pc' = "overrides"
    /\ UNCHANGED <<appDetails, context, env, workflow, pipeline, listen,
                   allowList, envInput, environments, branchOverride,
                   commitOverride, branchOptions, options, result, warnings>>

\* lines 48-49
ReadOverrides ==
    /\ pc = "overrides"
    /\ branchOverride' \in BranchOverrides
    /\ commitOverride' \in CommitOverrides
    /\ pc' = "dispatch"
    /\ UNCHANGED <<appDetails, context, env, workflow, pipeline, listen,
                   allowList, envInput, environments, defaultBranchOptions,
                   branchOptions, options, result, failed, warnings, ran>>

\* lines 50-56, processOverrides lines 190-216
OverridesParse ==
    /\ pc = "dispatch"
    /\ hasOverrides
    /\ warnings' = IF appDetails = None
                   THEN warnings \cup {"no-app-details"} ELSE warnings
    /\ branchOptions' = parseOverride(appDetails, branchOverride)
    /\ ran' = ran \cup {"overrides"}
    /\ pc' = "collapse"
    /\ UNCHANGED <<appDetails, context, env, workflow, pipeline, listen,
                   allowList, envInput, environments, defaultBranchOptions,
                   branchOverride, commitOverride, options, result, failed>>

\* processOverrides lines 217-237
OverridesCollapse ==
    /\ pc = "collapse"
    /\ branchOptions' = collapseToDefault(appDetails, defaultBranchOptions,
                                          branchOverride, branchOptions)
    /\ pc' = "narrow"
    /\ UNCHANGED <<appDetails, context, env, workflow, pipeline, listen,
                   allowList, envInput, environments, defaultBranchOptions,
                   branchOverride, commitOverride, options, result, failed,
                   warnings, ran>>

\* processOverrides lines 238-246, and the assignment of line 51
OverridesNarrow ==
    /\ pc = "narrow"
    /\ branchOptions' = narrowToCommit(defaultBranchOptions, commitOverride,
                                       branchOptions)
    /\ options' = branchOptions'
    /\ pc' = "finish"
    /\ UNCHANGED <<appDetails, context, env, workflow, pipeline, listen,
                   allowList, envInput, environments, defaultBranchOptions,
                   branchOverride, commitOverride, result, failed, warnings,
                   ran>>

\* lines 57-65
PullRequestEvent ==
    /\ pc = "dispatch"
    /\ ~hasOverrides
    /\ hasPullRequest
    /\ LET pr == context.payload[1].pull_request[1]
       IN /\ options' = transformPullRequestEvent(pr)
          /\ failed' = IF pullRequestFails(pr)
                       THEN failed \cup {MsgNotMergeable} ELSE failed
          /\ environments' = IF pr.draft
                             THEN Append(environments, DraftEnvironment)
                             ELSE environments
    /\ ran' = ran \cup {"pull_request"}
    /\ pc' = "finish"
    /\ UNCHANGED <<appDetails, context, env, workflow, pipeline, listen,
                   allowList, envInput, defaultBranchOptions, branchOverride,
                   commitOverride, branchOptions, result, warnings>>

\* lines 66-72
DefaultEvent ==
    /\ pc = "dispatch"
    /\ ~hasOverrides
    /\ ~hasPullRequest
    /\ IF defaultBranchOptions = None
       THEN /\ failed' = failed \cup {MsgNoPayload}
            /\ result' = Some(EmptyObject)
            /\ pc' = "done"
            /\ UNCHANGED options
       ELSE /\ options' = defaultBranchOptions[1]
            /\ pc' = "finish"
            /\ UNCHANGED <<failed, result>>
    /\ UNCHANGED <<appDetails, context, env, workflow, pipeline, listen,
                   allowList, envInput, environments, defaultBranchOptions,
                   branchOverride, commitOverride, branchOptions, warnings, ran>>

\* lines 74-100
Finish ==
    /\ pc = "finish"
    /\ \E skipGitStatusReport \in BOOLEAN :
         result' = Some(buildOptions(options, workflow, pipeline,
                                     skipGitStatusReport, environments))
    /\ warnings' = IF repositoryMismatch(appDetails, options)
                   THEN warnings \cup {"repository-mismatch"} ELSE warnings
    /\ pc' = "done"
    /\ UNCHANGED <<appDetails, context, env, workflow, pipeline, listen,
                   allowList, envInput, environments, defaultBranchOptions,
                   branchOverride, commitOverride, branchOptions, options,
                   failed, ran>>

Next ==
    \/ Validate
    \/ PrepareEnvironments
    \/ BaseEvent
    \/ ReadOverrides
    \/ OverridesParse
    \/ OverridesCollapse
    \/ OverridesNarrow
    \/ PullRequestEvent
    \/ DefaultEvent
    \/ Finish

Spec == Init /\ [][Next]_vars

----------------------------------------------------------------------------
(* prepareEnvironmentVariables alone, over every allow-list and process.env *)

InitEnv ==
    /\ pc = "sweep"
    /\ appDetails = None
    /\ context \in MissingPayloadContexts
    /\ env \in EnvSweep
    /\ Locals

\* lines 268-282
SweepEnvironments ==
    /\ pc = "sweep"
    /\ \E names \in AllowSweep, pad \in Paddings :
         /\ allowList' = names
         /\ envInput' = joinNames(names, pad)
    /\ environments' = prepareEnvironmentVariables(envInput', env)
    /\ pc' = "swept"
    /\ UNCHANGED <<appDetails, context, env, workflow, pipeline, listen,
                   defaultBranchOptions, branchOverride, commitOverride,
                   branchOptions, options, result, failed, warnings, ran>>

NextEnv == SweepEnvironments

SpecEnv == InitEnv /\ [][NextEnv]_vars

----------------------------------------------------------------------------
(* Properties *)

Returned == result # None
Out == result[1]

\* keys whose values are lists, numbers or booleans: set whenever owned
NonStringKeys ==
    {"commit_messages", "commit_paths", "environments", "pull_request_id",
     "skip_git_status_report"}

\* o.k is set: owned, and not undefined
IsSet(o, k) == k \in DOMAIN o /\ (k \in NonStringKeys \/ o[k] # Undefined)

PullRequestKeys ==
    {"pull_request_unverified_merge_branch", "pull_request_merge_branch",
     "pull_request_id", "pull_request_repository_url",
     "pull_request_head_branch", "pull_request_author",
     "pull_request_ready_state"}

EventMetadataKeys == {"commit_message", "commit_messages", "commit_paths"}

InputsRead == pc # "start" /\ pc # "sweep" /\ pc # "swept"

InvalidSelection ==
    \/ workflow = "" /\ pipeline = ""
    \/ workflow # "" /\ pipeline # ""
    \/ pipeline # "" /\ listen

OverrideGiven == branchOverride # "" \/ commitOverride # ""
OverridePathDone == pc \in {"finish", "done"} /\ "overrides" \in ran
PullRequestPathDone == pc = "done" /\ "pull_request" \in ran
ThePullRequest == context.payload[1].pull_request[1]
HasDraftEntry(envs) ==
    \E i \in DOMAIN envs : envs[i].mapped_to = "GITHUB_PR_IS_DRAFT"

\* C1: an invalid workflow/pipeline selection (neither, both, or pipeline with
\* listen) reports a failure, returns the empty record and runs no transform;
\* otherwise a returned record with any field has exactly one of workflow_id
\* and pipeline_id set.
C1_ValidationFirst ==
    InputsRead =>
        IF InvalidSelection
        THEN /\ pc = "done"
             /\ failed # {}
             /\ result = Some(EmptyObject)
             /\ ran = {}
             /\ defaultBranchOptions = None
        ELSE (Returned /\ DOMAIN Out # {}) =>
                 (IsSet(Out, "workflow_id") # IsSet(Out, "pipeline_id"))

C1_Witness ==
    /\ pc = "done"
    /\ pipeline # "" /\ workflow = "" /\ listen
    /\ result = Some(EmptyObject)
    /\ failed = {MsgListen}

\* C2: a reported deleted-event, not-mergeable or missing-payload failure means
\* that the returned record carries no workflow_id, pipeline_id, branch, tag,
\* commit_hash or environments; and each of the three conditions is reported,
\* with or without overrides.
C2_FatalAborts ==
    (pc = "done" /\ ~InvalidSelection) =>
        /\ (failed \cap {MsgDeleted, MsgNotMergeable, MsgNoPayload} # {}) =>
               \A k \in {"workflow_id", "pipeline_id", "branch", "tag",
                         "commit_hash", "environments"} : ~IsSet(Out, k)
        /\ (context.payload # None /\ context.payload[1].deleted) =>
               MsgDeleted \in failed
        /\ (/\ context.payload # None
            /\ context.payload[1].pull_request # None
            /\ ThePullRequest.mergeable = Some(FALSE)) =>
               MsgNotMergeable \in failed
        /\ (context.payload = None) => MsgNoPayload \in failed

\* C3: branch and tag are never both set, in the returned record or in the
\* options on the way to it (after the override merge and after the
\* narrowing to the commit override).
C3_BranchXorTag ==
    /\ ~(IsSet(branchOptions, "branch") /\ IsSet(branchOptions, "tag"))
    /\ ~(IsSet(options, "branch") /\ IsSet(options, "tag"))
    /\ Returned => ~(IsSet(Out, "branch") /\ IsSet(Out, "tag"))

C3_Witness ==
    /\ pc = "done"
    /\ "overrides" \in ran
    /\ branchOverride = "refs/tags/main"
    /\ commitOverride = "sha-old"
    /\ defaultOption(defaultBranchOptions, "branch") = "main"
    /\ appRepoUrl(appDetails) = "https://github.com/acme/app"
    /\ IsSet(Out, "tag") /\ ~IsSet(Out, "branch")

\* C4 as stated: on the pull-request path the output has
\* pull_request_unverified_merge_branch = "pull/<number>/merge" for every
\* mergeable (true, false, unknown), and pull_request_merge_branch is set, to
\* the same value, iff mergeable is not unknown.
C4_MergeBranchForEveryMergeable ==
    PullRequestPathDone =>
        /\ Get(Out, "pull_request_unverified_merge_branch")
               = "pull/" \o ToString(ThePullRequest.number) \o "/merge"
        /\ IsSet(Out, "pull_request_merge_branch")
               <=> (ThePullRequest.mergeable # None)
        /\ IsSet(Out, "pull_request_merge_branch") =>
               Out.pull_request_merge_branch
                   = Out.pull_request_unverified_merge_branch

\* C4, amended: the same when mergeable is true or unknown; when mergeable is
\* false the failure 'Pull Request is not mergeable' is reported and neither
\* merge-branch field is set.
C4_MergeBranchUnlessNotMergeable ==
    PullRequestPathDone =>
        IF ThePullRequest.mergeable = Some(FALSE)
        THEN /\ MsgNotMergeable \in failed
             /\ ~IsSet(Out, "pull_request_unverified_merge_branch")
             /\ ~IsSet(Out, "pull_request_merge_branch")
        ELSE /\ Get(Out, "pull_request_unverified_merge_branch")
                    = "pull/" \o ToString(ThePullRequest.number) \o "/merge"
             /\ IsSet(Out, "pull_request_merge_branch")
                    <=> (ThePullRequest.mergeable # None)
             /\ IsSet(Out, "pull_request_merge_branch") =>
                    Out.pull_request_merge_branch
                        = Out.pull_request_unverified_merge_branch

C4_Witness ==
    /\ PullRequestPathDone
    /\ ThePullRequest.mergeable = None
    /\ ThePullRequest.number = 2
    /\ Get(Out, "pull_request_unverified_merge_branch") = "pull/2/merge"
    /\ ~IsSet(Out, "pull_request_merge_branch")

\* C5: with a branch or commit override on a pull-request event the override
\* transform decides the result: the pull-request transform is not applied,
\* the output has no pull_request_* field, branch_dest, head_repository_url or
\* diff_url, no GITHUB_PR_IS_DRAFT entry, and no 'not mergeable' failure.
C5_OverridePrecedence ==
    (pc \in {"finish", "done"} /\ OverrideGiven /\ hasPullRequest) =>
        /\ "overrides" \in ran /\ "pull_request" \notin ran
        /\ MsgNotMergeable \notin failed
        /\ ~HasDraftEntry(environments)
        /\ \A k \in PullRequestKeys
                    \cup {"branch_dest", "head_repository_url", "diff_url"} :
               k \notin DOMAIN options
        /\ pc = "done" =>
               /\ Returned
               /\ ~HasDraftEntry(Out.environments)
               /\ \A k \in PullRequestKeys
                           \cup {"branch_dest", "head_repository_url", "diff_url"} :
                      k \notin DOMAIN Out

C5_Witness ==
    /\ pc = "done"
    /\ hasPullRequest
    /\ branchOverride = "" /\ commitOverride = "sha-old"
    /\ ThePullRequest.draft
    /\ ThePullRequest.mergeable = Some(FALSE)
    /\ Returned
    /\ Out.commit_hash = "sha-old"

\* the override names the branch or the tag the base event produced
SameNameAsBase ==
    \/ /\ Truthy(defaultOption(defaultBranchOptions, "branch"))
       /\ branchOverride \in
              {defaultOption(defaultBranchOptions, "branch"),
               "refs/heads/" \o defaultOption(defaultBranchOptions, "branch")}
    \/ /\ Truthy(defaultOption(defaultBranchOptions, "tag"))
       /\ branchOverride
              = "refs/tags/" \o defaultOption(defaultBranchOptions, "tag")

\* the app's repository URL is known and names the base event's repository
SameRepositoryAsBase ==
    /\ context.payload # None
    /\ Truthy(appRepoUrl(appDetails))
    /\ urlsReferTheSameGitHubRepo(appRepoUrl(appDetails),
                                  getRepositoryURL(context.payload[1].repository))

CommitOverrideDiffers ==
    /\ commitOverride # ""
    /\ commitOverride # defaultOption(defaultBranchOptions, "commit_hash")

\* C6: when the override names the base event's branch or tag, the app's
\* repository is the event's repository and no differing commit override is
\* given, the override path's options are the base-event result field for
\* field, base_repository_url being the event's, not the app's.
C6_CollapseToDefault ==
    (OverridePathDone /\ SameNameAsBase /\ SameRepositoryAsBase
       /\ ~CommitOverrideDiffers) =>
        /\ options = defaultBranchOptions[1]
        /\ DOMAIN options =
               {"commit_hash", "commit_message", "commit_messages",
                "commit_paths", "base_repository_url"}
               \cup (IF startsWith(context.ref, "refs/heads/")
                     THEN {"branch"} ELSE {"tag"})
        /\ options.commit_hash = context.sha
        /\ options.base_repository_url
               = getRepositoryURL(context.payload[1].repository)
        /\ pc = "done" =>
               \A k \in DOMAIN options : k \in DOMAIN Out /\ Out[k] = options[k]

C6_Witness ==
    /\ pc = "done"
    /\ "overrides" \in ran
    /\ branchOverride = "main" /\ commitOverride = HeadSha
    /\ appRepoUrl(appDetails) = "https://github.com/acme/app"
    /\ Out.branch = "main"
    /\ Out.base_repository_url = "git@github.com:acme/app.git"
    /\ Len(Out.commit_messages) = MaxCommits
    /\ Len(Out.commit_paths) = MaxCommits
    /\ Out.commit_message = "commit " \o ToString(MaxCommits)

\* C7: the last stage of the override path narrows the result to branch, tag,
\* commit_hash (the override) and base_repository_url exactly when a commit
\* override is given and differs from the base event's commit_hash; otherwise
\* it leaves every field of the result as it was.
C7_NarrowingExactly ==
    [][pc = "narrow" =>
         /\ pc' = "finish"
         /\ IF CommitOverrideDiffers
            THEN /\ DOMAIN options' =
                        {"branch", "tag", "commit_hash", "base_repository_url"}
                 /\ options'.commit_hash = commitOverride
                 /\ options'.branch = Get(branchOptions, "branch")
                 /\ options'.tag = Get(branchOptions, "tag")
                 /\ options'.base_repository_url
                        = Get(branchOptions, "base_repository_url")
            ELSE options' = branchOptions]_vars

C7_Witness ==
    /\ pc = "finish"
    /\ "overrides" \in ran
    /\ branchOverride = "refs/heads/main" /\ commitOverride = "sha-old"
    /\ SameNameAsBase /\ SameRepositoryAsBase
    /\ Len(defaultBranchOptions[1].commit_messages) = MaxCommits
    /\ options = [branch |-> "main", tag |-> Undefined,
                  commit_hash |-> "sha-old",
                  base_repository_url |-> "git@github.com:acme/app.git"]

\* C8: on the pull-request path, a draft whose event action is not
\* ready_for_review gives pull_request_ready_state "draft" and the entry
\* GITHUB_PR_IS_DRAFT = "true" (expand false); the action ready_for_review
\* gives "converted_to_ready_for_review" whatever the draft flag; otherwise
\* the state is "ready_for_review" and there is no GITHUB_PR_IS_DRAFT entry.
C8_ReadyState ==
    PullRequestPathDone =>
        LET action == context.payload[1].action
            draft == ThePullRequest.draft
        IN IF action = "ready_for_review"
           THEN Get(Out, "pull_request_ready_state")
                    = "converted_to_ready_for_review"
           ELSE IF draft
           THEN /\ Get(Out, "pull_request_ready_state") = "draft"
                /\ \E i \in DOMAIN Out.environments :
                       Out.environments[i] = DraftEnvironment
           ELSE /\ Get(Out, "pull_request_ready_state") = "ready_for_review"
                /\ ~HasDraftEntry(Out.environments)

\* the names of the allow-list: its items that are not blank
AllowedNames == Range(allowList) \ {""}
\* the places of process.env whose name is in the allow-list
AllowedPlaces == {i \in DOMAIN env : env[i][1] \in AllowedNames}
\* where the name of the j-th entry produced stands in process.env
PlaceOf(j) == CHOOSE i \in DOMAIN env : env[i][1] = environments[j].mapped_to

\* C9: prepareEnvironmentVariables yields exactly one entry per process.env
\* entry whose name is in the allow-list and no other, in process.env's order,
\* each with the entry's value ("" when unset) and expand false, for every
\* allow-list (duplicates, blanks, padding, absent names).
C9_EnvironmentPassthrough ==
    pc = "swept" =>
        /\ Len(environments) = Cardinality(AllowedPlaces)
        /\ \A i \in AllowedPlaces :
               \E j \in DOMAIN environments : environments[j].mapped_to = env[i][1]
        /\ \A j \in DOMAIN environments :
               /\ environments[j].mapped_to \in AllowedNames
               /\ \E i \in DOMAIN env : env[i][1] = environments[j].mapped_to
               /\ environments[j].value
                      = (IF env[PlaceOf(j)][2] = Undefined THEN ""
                         ELSE env[PlaceOf(j)][2])
               /\ environments[j].is_expand = FALSE
        /\ \A j, k \in DOMAIN environments :
               j < k => PlaceOf(j) < PlaceOf(k)

C9_Witness ==
    /\ pc = "swept"
    /\ allowList = <<"B", "", "A">>
    /\ envInput = " B ,  , A "
    /\ env = <<<<"A", Undefined>>, <<"B", "1">>>>
    /\ environments =
           <<[mapped_to |-> "A", value |-> "", is_expand |-> FALSE],
             [mapped_to |-> "B", value |-> "1", is_expand |-> FALSE]>>

\* C10: on the override path, when the app details are absent, have no
\* repository URL, or name another repository than the base event's, the
\* result takes nothing from the event even if the override names the event's
\* branch or tag: no commit_message, commit_messages or commit_paths, no
\* commit_hash but the commit override, and base_repository_url is the app's
\* URL when known and unset otherwise.
C10_NoCollapseWithoutSameRepository ==
    (OverridePathDone /\ ~SameRepositoryAsBase) =>
        /\ \A k \in EventMetadataKeys : ~IsSet(options, k)
        /\ IsSet(options, "commit_hash") =>
               commitOverride # "" /\ options.commit_hash = commitOverride
        /\ IF Truthy(appRepoUrl(appDetails))
           THEN Get(options, "base_repository_url") = appRepoUrl(appDetails)
           ELSE ~IsSet(options, "base_repository_url")
        /\ pc = "done" =>
               /\ \A k \in EventMetadataKeys : ~IsSet(Out, k)
               /\ Get(Out, "commit_hash") = Get(options, "commit_hash")
               /\ Get(Out, "base_repository_url")
                      = Get(options, "base_repository_url")

C10_Witness ==
    /\ pc = "done"
    /\ "overrides" \in ran
    /\ SameNameAsBase
    /\ branchOverride = "main" /\ commitOverride = ""
    /\ appRepoUrl(appDetails) = "git@github.com:acme/other.git"
    /\ defaultBranchOptions # None
    /\ Len(defaultBranchOptions[1].commit_messages) = MaxCommits
    /\ DOMAIN options = {"branch", "base_repository_url"}
    /\ Out.base_repository_url = "git@github.com:acme/other.git"

====
